---- MODULE Spec2Model ----
(***************************************************************************)
(* quotes-exporter: the request-scoped quote collection pipeline.          *)
(*                                                                         *)
(* Spec models the per-symbol exporter of collector.go: newCollector       *)
(* parses the `symbols` query parameter, Collect performs one memoized     *)
(* lookup per symbol (cache.Memoize over quote.Get) and updates the        *)
(* process-wide registers queryCount, errorCount and queryDuration.        *)
(* Requests run concurrently, one goroutine per request; a goroutine's     *)
(* steps are the points where it touches shared state.                     *)
(*                                                                         *)
(* SpecResolver applies newCollector to arbitrary bounded query strings.   *)
(*                                                                         *)
(* SpecLive is Spec with the scheduling of the goroutines.                 *)
(*                                                                         *)
(* SpecStonks applies stonks.Quote to bounded answers of the provider.     *)
(*                                                                         *)
(* SpecWTD models the earlier WorldTradingData versions, which make one    *)
(* batched lookup per request (getAssetsFromWTD), cached by the comma-     *)
(* joined symbols for 3 hours in two of them.  It reuses the variables of  *)
(* Spec: there storage and group are keyed by that string, ret holds the   *)
(* list of assets, and fetches is the log of the upstream calls.           *)
(*                                                                         *)
(* Strings are sequences of one-character strings; a ticker symbol is one  *)
(* letter.  Time is counted in minutes.                                    *)
(***************************************************************************)
EXTENDS Integers, Sequences, FiniteSets, TLC

VARIABLES
    now,            \* wall clock, minutes
    upstream,       \* what quote.Get answers for each symbol: "ok", "nil", "err"
    flagVolume,     \* collector.go:53
    storage,        \* the Memoizer's go-cache: key -> [Object, Expiration]
    group,          \* singleflight group of the Memoizer: keys with a call in flight
    queryCount,     \* collector.go:35
    errorCount,     \* collector.go:41
    queryDuration,  \* collector.go:29, number of observations of the summary
    pc,             \* position of each request goroutine
    url,            \* the raw query of the request being served
    symbols,        \* collector.symbols
    idx,            \* position of the range loop of Collect (1-based)
    ret,            \* (qret, err, cached) of the cache.Memoize call of this iteration
    ch,             \* metrics sent on the output channel by this Collect
    hist,           \* history: one record per latency observation of this Collect
    requests,       \* history: number of requests received
    collects,       \* history: number of Collect invocations started
    fetches,        \* history: upstream calls made, per key
    lastSet,        \* history: last successful upstream call per key
    lastErr,        \* history: time of the last failed upstream call per key
    rq, rs, rdone,  \* SpecResolver: query, resolved collector, applied flag
    sent,           \* history: price samples sent so far by the per-symbol Collect
    variant,        \* which version of the exporter runs
    qtype           \* collector.qtype of the WTD versions

vars == <<now, upstream, flagVolume, storage, group, queryCount, errorCount,
          queryDuration, pc, url, symbols, idx, ret, ch, hist, requests,
          collects, fetches, lastSet, lastErr, rq, rs, rdone, variant, qtype,
          sent>>

pipeVars == <<now, upstream, flagVolume, storage, group, queryCount, errorCount,
              queryDuration, pc, url, symbols, idx, ret, ch, hist, requests,
              collects, fetches, lastSet, lastErr, sent>>

resVars == <<rq, rs, rdone>>

wtdVars == <<variant, qtype>>

\* what the steps of the per-symbol exporter leave alone
offVars == <<resVars, wtdVars>>

----------------------------------------------------------------------------
(* Bounds *)

MaxRequests == 2
MaxTime == 20
MaxParams == 2
MaxLen == 3

(* Program constants *)

DefaultExpiration == 10
CleanupInterval == 20

\* the request goroutines that can run at the same time
Procs == {1, 2}
\* the clock is read at multiples of the freshness window
TickMinutes == DefaultExpiration

----------------------------------------------------------------------------
(* Strings *)

Comma == ","
Letters == {"A", "B", "C"}

RECURSIVE Index(_, _)
\* strings.Index(s, sep) for a one-character sep, 1-based; 0 when absent
Index(s, c) ==
    IF s = <<>> THEN 0
    ELSE IF Head(s) = c THEN 1
    ELSE LET m == Index(Tail(s), c) IN IF m = 0 THEN 0 ELSE m + 1

RECURSIVE Split(_, _)
\* strings.Split(s, sep)
Split(s, c) ==
    LET m == Index(s, c)
    IN  IF m = 0 THEN <<s>>
        ELSE <<SubSeq(s, 1, m - 1)>> \o Split(SubSeq(s, m + 1, Len(s)), c)

RECURSIVE Join(_, _)
\* strings.Join(a, sep)
Join(a, c) ==
    IF a = <<>> THEN <<>>
    ELSE IF Len(a) = 1 THEN a[1]
    ELSE a[1] \o <<c>> \o Join(Tail(a), c)

----------------------------------------------------------------------------
(* Symbol Resolver *)

RECURSIVE QueryValues(_, _)
\* myurl.Query()[key]: the values of every occurrence of key, in order
QueryValues(q, key) ==
    IF q = <<>> THEN <<>>
    ELSE IF Head(q).key = key THEN <<Head(q).value>> \o QueryValues(Tail(q), key)
    ELSE QueryValues(Tail(q), key)

RECURSIVE AppendSplit(_)
\* the range loop of newCollector
AppendSplit(qvalues) ==
    IF qvalues = <<>> THEN <<>>
    ELSE Split(Head(qvalues), Comma) \o AppendSplit(Tail(qvalues))

newCollectorFirstOnly(q) ==
    LET qvalues == QueryValues(q, "symbols")
    IN  IF qvalues = <<>> THEN [symbols |-> <<>>, err |-> TRUE]
        ELSE [symbols |-> Split(Head(qvalues), Comma), err |-> FALSE]

newCollectorNoCheck(q) ==
    [symbols |-> AppendSplit(QueryValues(q, "symbols")), err |-> FALSE]

newCollector(q) ==
    LET qvalues == QueryValues(q, "symbols")
        ok      == qvalues # <<>>
    IN  IF ~ok THEN [symbols |-> <<>>, err |-> TRUE]
        ELSE [symbols |-> AppendSplit(qvalues), err |-> FALSE]

----------------------------------------------------------------------------
(* Requests served by the exporter *)

Param(k, v) == [key |-> k, value |-> v]

\* (no query)   ?port=A   ?symbols=   ?symbols=A,B,A
\* ?symbols=B&symbols=A,C   ?symbols=A&symbols=A
Urls ==
    { <<>>,
      <<Param("port", <<"A">>)>>,
      <<Param("symbols", <<>>)>>,
      <<Param("symbols", <<"A", ",", "B", ",", "A">>)>>,
      <<Param("symbols", <<"B">>), Param("symbols", <<"A", ",", "C">>)>>,
      <<Param("symbols", <<"A">>), Param("symbols", <<"A">>)>> }

RECURSIVE Range(_)
Range(a) == IF a = <<>> THEN {} ELSE {Head(a)} \cup Range(Tail(a))

\* every key a request of Urls can look up
Keys == UNION { Range(AppendSplit(QueryValues(u, "symbols"))) : u \in Urls }

----------------------------------------------------------------------------
(* QuoteSource: quote.Get of finance-go *)

NoErr == "nil"
UpErr == "error"
\* the price the provider quotes at time t: it moves from one freshness
\* window to the next and is 0 during the second one
Market(t) == IF t = DefaultExpiration THEN 0 ELSE 15 + t

NilQuote ==
    [isNil |-> TRUE, Symbol |-> <<>>, ShortName |-> <<>>,
     RegularMarketPrice |-> 0, RegularMarketVolume |-> 0]

Quote(k, p) ==
    [isNil |-> FALSE, Symbol |-> k, ShortName |-> k \o <<"n">>,
     RegularMarketPrice |-> p, RegularMarketVolume |-> p * 2]

\* the provider the requests are served against: it knows A, does not know
\* C nor the empty symbol, and cannot be reached for B
Provider(k) ==
    CASE k = <<"A">> -> "ok"
      [] k = <<"B">> -> "err"
      [] OTHER       -> "nil"

\* the answers quote.Get(symbol) can give: (quote, nil), (nil, nil) for a
\* symbol the provider does not know, (nil, err)
QuoteGet(k) ==
    CASE upstream[k] = "err" -> { [val |-> NilQuote, err |-> UpErr] }
      [] upstream[k] = "nil" -> { [val |-> NilQuote, err |-> NoErr] }
      [] OTHER               -> { [val |-> Quote(k, Market(now)), err |-> NoErr] }

----------------------------------------------------------------------------
(* Memoizing cache: memoize.NewMemoizer(10*time.Minute, 20*time.Minute)    *)

StorageGetAlwaysMiss(st, k, t) == [found |-> FALSE, value |-> NilQuote]

StorageGetNoExpiry(st, k, t) ==
    IF k \in DOMAIN st
    THEN [found |-> TRUE, value |-> st[k].Object]
    ELSE [found |-> FALSE, value |-> NilQuote]

\* Storage.Get(key): an item is found until the clock passes its expiration
StorageGet(st, k, t) ==
    IF k \in DOMAIN st /\ ~(t > st[k].Expiration)
    THEN [found |-> TRUE, value |-> st[k].Object]
    ELSE [found |-> FALSE, value |-> NilQuote]

\* a Set that is not atomic: over an existing item it writes the new
\* object but leaves the volume of the old one
StorageSetTorn(st, k, data, t) ==
    (k :> [Object |-> IF k \in DOMAIN st
                      THEN [data EXCEPT !.RegularMarketVolume =
                                           st[k].Object.RegularMarketVolume]
                      ELSE data,
           Expiration |-> t + DefaultExpiration]) @@ st

\* Storage.Set(key, data, cache.DefaultExpiration)
StorageSet(st, k, data, t) ==
    (k :> [Object |-> data, Expiration |-> t + DefaultExpiration]) @@ st

MemoizeStoreAlways(st, k, data, innerErr, t) == StorageSet(st, k, data, t)

\* the function Memoize hands to the singleflight group: the outcome of fn
\* is stored only when fn returned no error
MemoizeStore(st, k, data, innerErr, t) ==
    IF innerErr = NoErr THEN StorageSet(st, k, data, t) ELSE st

\* the janitor of the cache, run every cleanup interval
DeleteExpired(st, t) ==
    [k \in {x \in DOMAIN st : ~(t > st[x].Expiration)} |-> st[k]]

----------------------------------------------------------------------------
(* History helpers *)

NoRet == [qret |-> NilQuote, err |-> NoErr, cached |-> FALSE]
Never == 0 - 1 - DefaultExpiration

\* a successful result for k was stored and its freshness window is open
FreshStored(k) == lastSet[k].at # Never /\ now <= lastSet[k].at + DefaultExpiration

\* an upstream failure for k happened within the last freshness window
FreshFailed(k) == lastErr[k] # Never /\ now <= lastErr[k] + DefaultExpiration

----------------------------------------------------------------------------
(* Initial state *)

ResolverLetters == {"A", "B"}
ResolverStrings == UNION { [1..n -> ResolverLetters \cup {Comma}] : n \in 0..MaxLen }
ResolverParams ==
    { Param("symbols", v) : v \in ResolverStrings } \cup { Param("port", <<"A">>) }

NoCollector == [symbols |-> <<>>, err |-> FALSE]

InitPipe ==
    /\ now = 0
    /\ upstream = [k \in Keys |-> Provider(k)]
    /\ flagVolume \in BOOLEAN
    /\ storage = << >>
    /\ group = {}
    /\ queryCount = 0
    /\ errorCount = 0
    /\ queryDuration = 0
    /\ pc = [r \in Procs |-> "idle"]
    /\ url = [r \in Procs |-> <<>>]
    /\ symbols = [r \in Procs |-> <<>>]
    /\ idx = [r \in Procs |-> 0]
    /\ ret = [r \in Procs |-> NoRet]
    /\ ch = [r \in Procs |-> <<>>]
    /\ hist = [r \in Procs |-> <<>>]
    /\ requests = 0
    /\ collects = 0
    /\ fetches = [k \in Keys |-> 0]
    /\ lastSet = [k \in Keys |-> [val |-> NilQuote, at |-> Never]]
    /\ lastErr = [k \in Keys |-> Never]
    /\ sent = 0

InitRes ==
    /\ rq = <<>>
    /\ rs = NoCollector
    /\ rdone = FALSE

\* the per-symbol exporter of collector.go has no asset type
InitPerSymbol ==
    /\ variant = "persymbol"
    /\ qtype = [r \in Procs |-> 0]

Init == InitPipe /\ InitRes /\ InitPerSymbol

----------------------------------------------------------------------------
(* The request handler and Collect, one goroutine r per request *)

Key(r) == symbols[r][idx[r]]

PriceSample(qq) ==
    [desc |-> "quotes_exporter_price", lvs |-> <<qq.Symbol, qq.ShortName>>,
     value |-> qq.RegularMarketPrice]

VolumeSample(qq) ==
    [desc |-> "quotes_exporter_volume", lvs |-> <<qq.Symbol, qq.ShortName>>,
     value |-> qq.RegularMarketVolume]

\* a variant that sends the volume whatever -volume says
SamplesVolumeAlways(qq, volume) == <<PriceSample(qq), VolumeSample(qq)>>

\* the samples Collect sends for one quote: the price, then, under -volume,
\* the volume with the same label values
Samples(qq, volume) ==
    IF volume THEN <<PriceSample(qq), VolumeSample(qq)>>
              ELSE <<PriceSample(qq)>>

\* the handler: build the collector from the URL, give up on an error.
\* Goroutines are interchangeable: a request is given to the first idle one.
getQuote(r, u) ==
    /\ pc[r] = "idle"
    /\ \A q \in 1..(r - 1) : pc[q] # "idle"
    /\ requests < MaxRequests
    /\ requests' = requests + 1
    /\ url' = [url EXCEPT ![r] = u]
    /\ LET c == newCollector(u)
       IN  /\ symbols' = [symbols EXCEPT ![r] = c.symbols]
           /\ pc' = [pc EXCEPT ![r] = IF c.err THEN "rejected" ELSE "Collect"]
    /\ idx' = [idx EXCEPT ![r] = 0]
    /\ ret' = [ret EXCEPT ![r] = NoRet]
    /\ ch' = [ch EXCEPT ![r] = <<>>]
    /\ hist' = [hist EXCEPT ![r] = <<>>]
    /\ UNCHANGED <<now, upstream, flagVolume, storage, group, queryCount,
                   errorCount, queryDuration, collects, fetches, lastSet, lastErr>>
    /\ UNCHANGED sent

\* a variant whose registers belong to the registry of the request
CollectBeginFreshRegisters(r) ==
    /\ pc[r] = "Collect"
    /\ queryCount' = 1
    /\ errorCount' = 0
    /\ queryDuration' = 0
    /\ collects' = collects + 1
    /\ idx' = [idx EXCEPT ![r] = 1]
    /\ pc' = [pc EXCEPT ![r] = "loop"]
    /\ UNCHANGED <<now, upstream, flagVolume, storage, group, url, symbols,
                   ret, ch, hist, requests, fetches, lastSet, lastErr>>
    /\ UNCHANGED sent

CollectBeginPerSymbol(r) ==
    /\ pc[r] = "Collect"
    /\ queryCount' = queryCount + Len(symbols[r])
    /\ collects' = collects + 1
    /\ idx' = [idx EXCEPT ![r] = 1]
    /\ pc' = [pc EXCEPT ![r] = "loop"]
    /\ UNCHANGED <<now, upstream, flagVolume, storage, group, errorCount,
                   queryDuration, url, symbols, ret, ch, hist, requests,
                   fetches, lastSet, lastErr>>
    /\ UNCHANGED sent

\* Collect is entered: queryCount.Inc()
CollectBegin(r) ==
    /\ pc[r] = "Collect"
    /\ queryCount' = queryCount + 1
    /\ collects' = collects + 1
    /\ idx' = [idx EXCEPT ![r] = 1]
    /\ pc' = [pc EXCEPT ![r] = "loop"]
    /\ UNCHANGED <<now, upstream, flagVolume, storage, group, errorCount,
                   queryDuration, url, symbols, ret, ch, hist, requests,
                   fetches, lastSet, lastErr>>
    /\ UNCHANGED sent

\* cache.Memoize, first half: the value is served from Storage when found
MemoizeGet(r) ==
    /\ pc[r] = "loop"
    /\ idx[r] <= Len(symbols[r])
    /\ LET g == StorageGet(storage, Key(r), now)
       IN  IF g.found
           THEN /\ ret' = [ret EXCEPT ![r] =
                              [qret |-> g.value, err |-> NoErr, cached |-> TRUE]]
                /\ pc' = [pc EXCEPT ![r] = "observe"]
           ELSE /\ ret' = ret
                /\ pc' = [pc EXCEPT ![r] = "do"]
    /\ UNCHANGED <<now, upstream, flagVolume, storage, group, queryCount,
                   errorCount, queryDuration, url, symbols, idx, ch, hist,
                   requests, collects, fetches, lastSet, lastErr>>
    /\ UNCHANGED sent

\* cache.Memoize, second half: group.Do(key, ...) joins the call in flight
\* for the key or starts one
GroupDo(r) ==
    /\ pc[r] = "do"
    /\ IF Key(r) \in group
       THEN /\ pc' = [pc EXCEPT ![r] = "wait"]
            /\ group' = group
       ELSE /\ pc' = [pc EXCEPT ![r] = "fetch"]
            /\ group' = group \cup {Key(r)}
    /\ UNCHANGED <<now, upstream, flagVolume, storage, queryCount, errorCount,
                   queryDuration, url, symbols, idx, ret, ch, hist, requests,
                   collects, fetches, lastSet, lastErr>>
    /\ UNCHANGED sent

\* the call in flight returns: cachedFetcher ran quote.Get(symbol), the
\* outcome is stored when it is no error, and it is handed to the caller
\* and to every goroutine waiting on the same key
Fetch(r) ==
    /\ pc[r] = "fetch"
    /\ \E o \in QuoteGet(Key(r)) :
         LET k       == Key(r)
             sharers == {r} \cup {w \in Procs : pc[w] = "wait" /\ Key(w) = k}
             out     == [qret |-> o.val, err |-> o.err, cached |-> FALSE]
         IN  /\ storage' = MemoizeStore(storage, k, o.val, o.err, now)
             /\ group' = group \ {k}
             /\ ret' = [w \in Procs |-> IF w \in sharers THEN out ELSE ret[w]]
             /\ pc' = [w \in Procs |-> IF w \in sharers THEN "observe" ELSE pc[w]]
             /\ fetches' = [fetches EXCEPT ![k] = @ + 1]
             /\ lastSet' = IF o.err = NoErr
                           THEN [lastSet EXCEPT ![k] = [val |-> o.val, at |-> now]]
                           ELSE lastSet
             /\ lastErr' = IF o.err = NoErr THEN lastErr
                           ELSE [lastErr EXCEPT ![k] = now]
    /\ UNCHANGED <<now, upstream, flagVolume, queryCount, errorCount,
                   queryDuration, url, symbols, idx, ch, hist, requests, collects>>
    /\ UNCHANGED sent

\* a variant that measures the upstream calls only, not the cache hits
ObserveSkipsCached(r) ==
    /\ pc[r] = "observe"
    /\ queryDuration' = IF ret[r].cached THEN queryDuration ELSE queryDuration + 1
    /\ hist' = [hist EXCEPT ![r] =
                   Append(@, [failed |-> FALSE])]
    /\ pc' = [pc EXCEPT ![r] = "check"]
    /\ UNCHANGED <<now, upstream, flagVolume, storage, group, queryCount,
                   errorCount, url, symbols, idx, ret, ch, requests,
                   collects, fetches, lastSet, lastErr, sent>>

\* queryDuration.Observe(time.Since(start))
Observe(r) ==
    /\ pc[r] = "observe"
    /\ queryDuration' = queryDuration + 1
    /\ hist' = [hist EXCEPT ![r] =
                   Append(@, [failed |-> FALSE])]
    /\ pc' = [pc EXCEPT ![r] = "check"]
    /\ UNCHANGED <<now, upstream, flagVolume, storage, group, queryCount,
                   errorCount, url, symbols, idx, ret, ch, requests,
                   collects, fetches, lastSet, lastErr>>
    /\ UNCHANGED sent

\* the rest of the loop body: the three error checks, each counting the
\* failure and returning from Collect, then the samples sent on ch
Check(r) ==
    /\ pc[r] = "check"
    /\ LET qq == ret[r].qret
       IN  IF ret[r].err # NoErr \/ qq.isNil
           THEN /\ errorCount' = errorCount + 1
                /\ pc' = [pc EXCEPT ![r] = "done"]
                /\ hist' = [hist EXCEPT ![r][Len(hist[r])].failed = TRUE]
                /\ UNCHANGED <<ch, idx, sent>>
           ELSE /\ ch' = [ch EXCEPT ![r] = @ \o Samples(qq, flagVolume)]
                /\ sent' = sent + 1
                /\ idx' = [idx EXCEPT ![r] = @ + 1]
                /\ pc' = [pc EXCEPT ![r] = "loop"]
                /\ UNCHANGED <<errorCount, hist>>
    /\ ret' = [ret EXCEPT ![r] = NoRet]
    /\ UNCHANGED <<now, upstream, flagVolume, storage, group, queryCount,
                   queryDuration, url, symbols, requests, collects,
                   fetches, lastSet, lastErr>>

\* the range loop is exhausted: Collect returns
CollectReturn(r) ==
    /\ pc[r] = "loop"
    /\ idx[r] > Len(symbols[r])
    /\ pc' = [pc EXCEPT ![r] = "done"]
    /\ UNCHANGED <<now, upstream, flagVolume, storage, group, queryCount,
                   errorCount, queryDuration, url, symbols, idx, ret, ch, hist,
                   requests, collects, fetches, lastSet, lastErr>>
    /\ UNCHANGED sent

\* the handler returns: the collector and the registry of the request are
\* dropped, and the goroutine can serve the next request
Finish(r) ==
    /\ pc[r] \in {"done", "rejected"}
    /\ pc' = [pc EXCEPT ![r] = "idle"]
    /\ url' = [url EXCEPT ![r] = <<>>]
    /\ symbols' = [symbols EXCEPT ![r] = <<>>]
    /\ idx' = [idx EXCEPT ![r] = 0]
    /\ ret' = [ret EXCEPT ![r] = NoRet]
    /\ ch' = [ch EXCEPT ![r] = <<>>]
    /\ hist' = [hist EXCEPT ![r] = <<>>]
    /\ UNCHANGED <<now, upstream, flagVolume, storage, group, queryCount,
                   errorCount, queryDuration, requests, collects, fetches,
                   lastSet, lastErr>>
    /\ UNCHANGED sent

\* time passes
Tick ==
    /\ now + TickMinutes <= MaxTime
    /\ now' = now + TickMinutes
    /\ UNCHANGED <<upstream, flagVolume, storage, group, queryCount, errorCount,
                   queryDuration, pc, url, symbols, idx, ret, ch, hist, requests,
                   collects, fetches, lastSet, lastErr>>
    /\ UNCHANGED sent

\* the janitor of the cache runs every cleanup interval
Janitor ==
    /\ now > 0
    /\ now % CleanupInterval = 0
    /\ storage' = DeleteExpired(storage, now)
    /\ UNCHANGED <<now, upstream, flagVolume, group, queryCount, errorCount,
                   queryDuration, pc, url, symbols, idx, ret, ch, hist, requests,
                   collects, fetches, lastSet, lastErr>>
    /\ UNCHANGED sent

Next ==
    \/ \E r \in Procs, u \in Urls : getQuote(r, u) /\ UNCHANGED offVars
    \/ \E r \in Procs : CollectBegin(r) /\ UNCHANGED offVars
    \/ \E r \in Procs : MemoizeGet(r) /\ UNCHANGED offVars
    \/ \E r \in Procs : GroupDo(r) /\ UNCHANGED offVars
    \/ \E r \in Procs : Fetch(r) /\ UNCHANGED offVars
    \/ \E r \in Procs : Observe(r) /\ UNCHANGED offVars
    \/ \E r \in Procs : Check(r) /\ UNCHANGED offVars
    \/ \E r \in Procs : CollectReturn(r) /\ UNCHANGED offVars
    \/ \E r \in Procs : Finish(r) /\ UNCHANGED offVars
    \/ Tick /\ UNCHANGED offVars
    \/ Janitor /\ UNCHANGED offVars

Spec == Init /\ [][Next]_vars

----------------------------------------------------------------------------
(* The resolver alone, on arbitrary queries *)

InitResolver ==
    /\ InitPipe
    /\ InitPerSymbol
    /\ flagVolume = FALSE
    /\ rq = <<>>
    /\ rs = NoCollector
    /\ rdone = FALSE

\* the client writes one more parameter into the query of its request
AddParam(prm) ==
    /\ ~rdone
    /\ Len(rq) < MaxParams
    /\ rq' = Append(rq, prm)
    /\ UNCHANGED <<rs, rdone>>
    /\ UNCHANGED <<pipeVars, wtdVars>>

\* the request arrives: newCollector(r.URL)
Resolve ==
    /\ ~rdone
    /\ rs' = newCollector(rq)
    /\ rdone' = TRUE
    /\ UNCHANGED rq
    /\ UNCHANGED <<pipeVars, wtdVars>>

NextResolver ==
    \/ \E prm \in ResolverParams : AddParam(prm)
    \/ Resolve

SpecResolver == InitResolver /\ [][NextResolver]_vars

----------------------------------------------------------------------------
(* Properties *)

IsPrice(m) == m.desc = "quotes_exporter_price"
PriceSamples(r) == SelectSeq(ch[r], IsPrice)

Succeeds(k) == upstream[k] = "ok"
Fails(k) == upstream[k] # "ok"
HistFailed(h) == h.failed

\* the symbols of the request whose lookup succeeds, in request order
OkSymbols(r) == SelectSeq(symbols[r], Succeeds)
\* the failure increments and the latency observations made by this Collect
FailuresBy(r) == Len(SelectSeq(hist[r], HistFailed))
ObservationsBy(r) == Len(hist[r])

\* r takes the step that starts a lookup (the Storage.Get of cache.Memoize)
LookupStep(r) ==
    /\ pc[r] = "loop"
    /\ idx[r] <= Len(symbols[r])
    /\ pc'[r] # "loop"

Registers == <<queryCount, errorCount, queryDuration>>

\* C1: when Collect has returned, the price samples it sent are exactly one
\* per symbol whose lookup succeeds, in request order, whatever the position
\* of the failing symbols.
C1_OneSamplePerGoodSymbol ==
    \A r \in Procs :
        pc[r] = "done" =>
            /\ Len(PriceSamples(r)) = Len(OkSymbols(r))
            /\ \A j \in 1..Len(PriceSamples(r)) :
                   j <= Len(OkSymbols(r)) => PriceSamples(r)[j].lvs[1] = OkSymbols(r)[j]

\* C2: when Collect has returned, it has incremented the failure counter
\* once per failing symbol of the request.
C2_FailuresEqualFailingSymbols ==
    \A r \in Procs :
        pc[r] = "done" => FailuresBy(r) = Len(SelectSeq(symbols[r], Fails))

\* C3: the query counter equals the number of Collect invocations started,
\* in every interleaving, and every change of it is an increment by one made
\* by a goroutine entering Collect.
C3_QueryCountPerCollect ==
    [][ /\ queryCount' = collects'
        /\ queryCount' # queryCount =>
              /\ queryCount' = queryCount + 1
              /\ \E r \in Procs : pc[r] = "Collect" /\ pc'[r] = "loop" ]_vars

C3_Witness ==
    /\ queryCount = 2
    /\ \A r \in Procs : pc[r] \in {"loop", "do", "wait", "fetch", "observe", "check"}
    /\ \E r \in Procs : Len(symbols[r]) = 3

\* C4: when Collect has returned, it has recorded one latency observation
\* per symbol of the request.
C4_OneObservationPerSymbol ==
    \A r \in Procs :
        pc[r] = "done" => ObservationsBy(r) = Len(symbols[r])

\* C5: a lookup started while a successful result for its key is stored and
\* fresh is answered in that step from the cache: cached is true, the value
\* is the one the storing lookup got, and no upstream call is made.
C5_FreshHit ==
    [][ \A r \in Procs :
          (LookupStep(r) /\ FreshStored(Key(r))) =>
              /\ pc'[r] = "observe"
              /\ ret'[r] = [qret |-> lastSet[Key(r)].val, err |-> NoErr, cached |-> TRUE]
              /\ fetches' = fetches ]_vars

C5_Witness ==
    \E r \in Procs :
        /\ pc[r] = "observe"
        /\ ret[r].cached
        /\ ~ret[r].qret.isNil
        /\ now > lastSet[Key(r)].at
        /\ fetches[Key(r)] = 1

C7_MissingSymbolsRejected ==
    [][ \A r \in Procs :
          /\ (pc[r] = "idle" /\ pc'[r] # "idle"
                /\ \A i \in 1..Len(url'[r]) : url'[r][i].key # "symbols") =>
                /\ pc'[r] = "rejected"
                /\ UNCHANGED <<storage, group, fetches, collects, Registers>>
          /\ (pc[r] = "rejected" /\ pc'[r] # "rejected") =>
                /\ pc'[r] = "idle"
                /\ UNCHANGED <<storage, group, fetches, collects, Registers>> ]_vars

C7_Witness ==
    \E r \in Procs : pc[r] = "rejected" /\ requests = MaxRequests

\* C8: a request whose `symbols` parameter is present but empty is rejected:
\* Collect is never entered for it and the empty symbol is never looked up.
C8_EmptySymbolsRejected ==
    /\ \A r \in Procs :
          url[r] = <<Param("symbols", <<>>)>> => pc[r] \in {"idle", "rejected"}
    /\ fetches[<<>>] = 0

RECURSIVE CountChar(_, _)
CountChar(str, c) ==
    IF str = <<>> THEN 0
    ELSE (IF Head(str) = c THEN 1 ELSE 0) + CountChar(Tail(str), c)

RECURSIVE Entries(_)
\* the number of comma/repetition-separated entries of a query
Entries(q) ==
    IF q = <<>> THEN 0
    ELSE (IF Head(q).key = "symbols" THEN CountChar(Head(q).value, Comma) + 1 ELSE 0)
         + Entries(Tail(q))

IsSymbolsParam(prm) == prm.key = "symbols"

RECURSIVE JoinValues(_)
\* the values of the occurrences, in order, joined by commas
JoinValues(ps) ==
    IF ps = <<>> THEN <<>>
    ELSE IF Len(ps) = 1 THEN ps[1].value
    ELSE ps[1].value \o <<Comma>> \o JoinValues(Tail(ps))

\* C9: for a query with at least one `symbols` occurrence newCollector
\* succeeds, the number of symbols is the number of comma/repetition
\* separated entries, no symbol holds a comma, and the symbols joined by
\* commas read as the occurrences joined by commas (order and duplicates
\* are kept).
C9_ResolverKeepsAllEntries ==
    (rdone /\ \E i \in 1..Len(rq) : rq[i].key = "symbols") =>
        /\ ~rs.err
        /\ Len(rs.symbols) = Entries(rq)
        /\ \A j \in 1..Len(rs.symbols) : CountChar(rs.symbols[j], Comma) = 0
        /\ Join(rs.symbols, Comma) = JoinValues(SelectSeq(rq, IsSymbolsParam))

C9_Witness ==
    /\ rdone
    /\ Len(SelectSeq(rq, IsSymbolsParam)) = 2
    /\ Len(rs.symbols) = 3
    /\ rs.symbols[1] = rs.symbols[3]
    /\ rs.symbols[1] # <<>>

\* C10: a quote whose price is 0 is handled like an upstream error: the
\* step that checks it sends no sample and increments the failure counter.
C10_ZeroPriceIsFailure ==
    [][ \A r \in Procs :
          (pc[r] = "check" /\ pc'[r] # "check" /\ ret[r].err = NoErr
              /\ ~ret[r].qret.isNil /\ ret[r].qret.RegularMarketPrice = 0) =>
              /\ ch'[r] = ch[r]
              /\ errorCount' = errorCount + 1 ]_vars

----------------------------------------------------------------------------
(* The volume sample *)

IsVolume(s) == s.desc = "quotes_exporter_volume"

\* C11: without -volume no volume sample is sent; with it every price
\* sample is followed at once by one volume sample with the same label
\* values, and no volume sample stands anywhere else
C11_VolumeFollowsPrice ==
    \A r \in Procs :
      LET c == ch[r]
      IN  /\ \A j \in 1..Len(c) : IsPrice(c[j]) \/ IsVolume(c[j])
          /\ ~flagVolume => \A j \in 1..Len(c) : ~IsVolume(c[j])
          /\ flagVolume =>
               \A j \in 1..Len(c) :
                 /\ IsPrice(c[j]) =>
                      /\ j < Len(c)
                      /\ IsVolume(c[j + 1])
                      /\ c[j + 1].lvs = c[j].lvs
                 /\ IsVolume(c[j]) =>
                      /\ j > 1
                      /\ IsPrice(c[j - 1])
                      /\ c[j - 1].lvs = c[j].lvs

C11_Witness ==
    /\ flagVolume
    /\ \E r \in Procs :
         /\ Len(ch[r]) = 4
         /\ IsPrice(ch[r][3])
         /\ IsVolume(ch[r][4])

----------------------------------------------------------------------------
(* Expiry *)

\* a result was stored for k and its freshness window has elapsed
Stale(k) == lastSet[k].at # Never /\ now > lastSet[k].at + DefaultExpiration

\* C14: a lookup that starts after the freshness window of the stored entry
\* has elapsed is not answered from the cache but goes to the upstream call;
\* the call that returns is reported with cached=false, counts as one more
\* upstream call, and its result, when it is no error, replaces the stored
\* entry with a new window.
C14_ExpiredEntryRefetched ==
    [][ \A r \in Procs :
          /\ (LookupStep(r) /\ Stale(Key(r))) =>
                /\ pc'[r] = "do"
                /\ ret'[r] = NoRet
          /\ (pc[r] = "do" /\ pc'[r] # "do") =>
                \/ pc'[r] = "fetch"
                \/ /\ pc'[r] = "wait"
                   /\ \E l \in Procs : pc[l] = "fetch" /\ Key(l) = Key(r)
          /\ (pc[r] = "fetch" /\ pc'[r] # "fetch") =>
                /\ pc'[r] = "observe"
                /\ ~ret'[r].cached
                /\ fetches'[Key(r)] = fetches[Key(r)] + 1
                /\ ret'[r].err = NoErr =>
                     storage'[Key(r)] =
                        [Object |-> ret'[r].qret,
                         Expiration |-> now + DefaultExpiration] ]_vars

C14_Witness ==
    \E r \in Procs :
        /\ pc[r] = "observe"
        /\ ~ret[r].cached
        /\ ret[r].err = NoErr
        /\ now = 2 * DefaultExpiration
        /\ lastSet[Key(r)].at = now
        /\ fetches[Key(r)] = 2
        /\ \A q \in Procs \ {r} : pc[q] = "idle"

----------------------------------------------------------------------------
(* Concurrent lookups *)

\* goroutine r is handed the result of an upstream call in this step
Receives(r) == pc[r] \in {"fetch", "wait"} /\ pc'[r] = "observe"

\* every item of the cache is what the last storing upstream call returned
StoredIsOneOutcome ==
    \A k \in DOMAIN storage :
        storage[k] = [Object |-> lastSet[k].val,
                      Expiration |-> lastSet[k].at + DefaultExpiration]

\* C16: whatever the interleaving of lookups of one key, the stored entry
\* is the whole outcome of one upstream call (the last one that stored),
\* with the window of that call; every goroutine handed a result in a step
\* is handed the whole outcome of the one upstream call that returns in
\* that step; and a goroutine that joined a call in flight makes no call of
\* its own: it waits, and is handed the result of the call it joined.
C16_ConcurrentMissesSeeOneOutcome ==
    [][ \A r \in Procs :
          /\ Receives(r) =>
               /\ \E o \in QuoteGet(Key(r)) :
                     ret'[r] = [qret |-> o.val, err |-> o.err, cached |-> FALSE]
               /\ fetches'[Key(r)] = fetches[Key(r)] + 1
               /\ \A w \in Procs :
                     (Receives(w) /\ Key(w) = Key(r)) => ret'[w] = ret'[r]
               /\ StoredIsOneOutcome'
          /\ pc[r] = "wait" =>
               \/ pc'[r] = "wait" /\ ret'[r] = ret[r]
               \/ /\ Receives(r)
                  /\ \E l \in Procs :
                       /\ pc[l] = "fetch"
                       /\ Key(l) = Key(r)
                       /\ Receives(l) ]_vars

C16_Witness ==
    /\ \A r \in Procs :
         /\ pc[r] = "observe"
         /\ ~ret[r].cached
         /\ ret[r] = ret[1]
         /\ Key(r) = Key(1)
    /\ fetches[Key(1)] = 1
    /\ Key(1) \in DOMAIN storage

----------------------------------------------------------------------------
(* The registers over the life of the process *)

\* C17: no step of any request, served, failing or rejected, and no
\* interleaving of requests, decreases or resets the query counter, the
\* failure counter or the number of latency observations.
C17_RegistersNeverDecrease ==
    [][ /\ queryCount' >= queryCount
        /\ errorCount' >= errorCount
        /\ queryDuration' >= queryDuration ]_vars

C17_Witness ==
    /\ queryCount = 1
    /\ errorCount = 1
    /\ queryDuration = 2
    /\ requests = 2
    /\ pc[1] = "rejected"
    /\ pc[2] = "done"

----------------------------------------------------------------------------
(* Termination *)

\* the steps goroutine r takes on its own: the Go scheduler runs every
\* runnable goroutine, and none of these steps waits for anything
Runs(r) ==
    \/ CollectBegin(r)
    \/ MemoizeGet(r)
    \/ GroupDo(r)
    \/ Observe(r)
    \/ Check(r)
    \/ CollectReturn(r)

\* Spec with the scheduling of the goroutines.  Fetch is the answer of the
\* provider to a request sent without a deadline: nothing makes it happen.
SpecLive ==
    /\ Spec
    /\ \A r \in Procs : WF_vars(Runs(r) /\ UNCHANGED offVars)

----------------------------------------------------------------------------
(* The WorldTradingData versions of the exporter: one batched lookup per   *)
(* request.  "plain" is main.go (no cache), "path" is the cached version   *)
(* that takes the asset type from the URL path, "typed" the cached version *)
(* that takes it from a prefix of the symbols value.                       *)

assetTypeStock == 0
assetTypeMutualFund == 1

Colon == ":"
Slash == "/"
stock == <<"s", "t", "o", "c", "k">>
fund == <<"f", "u", "n", "d">>
stocks == stock \o <<"s">>
funds == fund \o <<"s">>

\* strings.HasPrefix(s, prefix)
HasPrefix(s, prefix) ==
    Len(s) >= Len(prefix) /\ SubSeq(s, 1, Len(prefix)) = prefix

\* queryTypes; the order in which Go ranges over the map does not matter,
\* as no string starts with two of its keys
queryTypesPath ==
    { [key |-> stocks, qtype |-> assetTypeStock],
      [key |-> funds, qtype |-> assetTypeMutualFund] }

queryTypesTyped ==
    { [key |-> stock, qtype |-> assetTypeStock],
      [key |-> fund, qtype |-> assetTypeMutualFund] }

\* queryType(path)
queryType(path) ==
    LET found == { e \in queryTypesPath :
                     LET q == <<Slash>> \o e.key
                     IN  ~(Len(path) < Len(q)) /\ HasPrefix(path, q) }
    IN  IF found = {} THEN [qtype |-> 0, err |-> TRUE]
        ELSE [qtype |-> (CHOOSE e \in found : TRUE).qtype, err |-> FALSE]

NoQuery == [qtype |-> 0, symbols |-> <<>>, err |-> TRUE]

\* the entries of queryTypes whose prefix "type:" starts qvalue
TypesOf(qvalue) ==
    { e \in queryTypesTyped :
        LET t == e.key \o <<Colon>>
        IN  ~(Len(qvalue) < Len(t)) /\ HasPrefix(qvalue, t) }

\* what parseQuery returns for a value that starts with the prefix of e
Typed(e, qvalue) ==
    [qtype |-> e.qtype,
     symbols |-> Split(SubSeq(qvalue, Len(e.key) + 2, Len(qvalue)), Comma),
     err |-> FALSE]

\* a variant that takes a value without a known prefix as a list of stocks
parseQueryDefaultStock(q) ==
    LET qvalues == QueryValues(q, "symbols")
    IN  IF qvalues = <<>> THEN NoQuery
        ELSE LET qvalue == qvalues[1]
                 found  == TypesOf(qvalue)
             IN  IF found = {}
                 THEN [qtype |-> assetTypeStock,
                       symbols |-> Split(qvalue, Comma), err |-> FALSE]
                 ELSE Typed(CHOOSE e \in found : TRUE, qvalue)

\* a variant that reads the last occurrence of the parameter
parseQueryLast(q) ==
    LET qvalues == QueryValues(q, "symbols")
    IN  IF qvalues = <<>> THEN NoQuery
        ELSE LET qvalue == qvalues[Len(qvalues)]
                 found  == TypesOf(qvalue)
             IN  IF found = {} THEN NoQuery
                 ELSE Typed(CHOOSE e \in found : TRUE, qvalue)

\* parseQuery(myurl): only qvalues[0] is read
parseQuery(q) ==
    LET qvalues == QueryValues(q, "symbols")
    IN  IF qvalues = <<>> THEN NoQuery
        ELSE LET qvalue == qvalues[1]
                 found  == TypesOf(qvalue)
             IN  IF found = {} THEN NoQuery
                 ELSE Typed(CHOOSE e \in found : TRUE, qvalue)

(* QuoteSource: getAssetsFromWTD *)

\* the switch on atype
WtdQuery(atype) ==
    CASE atype = assetTypeStock      -> "stock"
      [] atype = assetTypeMutualFund -> "mutualfund"
      [] OTHER                       -> "invalid"

\* what WorldTradingData lists: the stocks A and B, B without a price, and
\* the funds A and B; nobody lists C
WtdBook ==
    (<<"stock", <<"A">>>>      :> [name |-> <<"A", "s">>, price |-> <<"1", "4">>]) @@
    (<<"stock", <<"B">>>>      :> [name |-> <<"B", "s">>, price |-> <<"N", "/", "A">>]) @@
    (<<"mutualfund", <<"A">>>> :> [name |-> <<"A", "f">>, price |-> <<"3", "0">>]) @@
    (<<"mutualfund", <<"B">>>> :> [name |-> <<"B", "f">>, price |-> <<"2", "2">>])

RECURSIVE WtdData(_, _)
\* the "data" array of the answer: one item per requested symbol that is
\* listed, in the order of the request
WtdData(query, syms) ==
    IF syms = <<>> THEN <<>>
    ELSE (IF <<query, Head(syms)>> \in DOMAIN upstream
          THEN << [symbol |-> Head(syms),
                   name   |-> upstream[<<query, Head(syms)>>].name,
                   price  |-> upstream[<<query, Head(syms)>>].price] >>
          ELSE <<>>)
         \o WtdData(query, Tail(syms))

\* getAssetsFromWTD(symbols, atype): the symbols travel comma-joined in the
\* URL; an answer without "data" is an error
getAssetsFromWTD(syms, atype) ==
    IF WtdQuery(atype) = "invalid" THEN [val |-> <<>>, err |-> UpErr]
    ELSE LET data == WtdData(WtdQuery(atype), Split(Join(syms, Comma), Comma))
         IN  IF data = <<>> THEN [val |-> <<>>, err |-> UpErr]
             ELSE [val |-> data, err |-> NoErr]

Digits == <<"0", "1", "2", "3", "4", "5", "6", "7", "8", "9">>
IsDigit(c) == \E d \in 1..Len(Digits) : Digits[d] = c
DigitValue(c) == (CHOOSE d \in 1..Len(Digits) : Digits[d] = c) - 1

RECURSIVE ParseDigits(_, _)
ParseDigits(s, acc) ==
    IF s = <<>> THEN acc
    ELSE ParseDigits(Tail(s), acc * Len(Digits) + DigitValue(Head(s)))

\* strconv.ParseFloat(s, 64) on the prices WorldTradingData sends: a run of
\* decimal digits is its value, anything else over this alphabet an error
ParseFloat(s) ==
    IF s # <<>> /\ \A i \in 1..Len(s) : IsDigit(s[i])
    THEN [val |-> ParseDigits(s, 0), err |-> FALSE]
    ELSE [val |-> 0, err |-> TRUE]

WtdDesc == IF variant = "typed" THEN "quote_exporter_price"
                               ELSE "quote_exporter_stock_price"

WtdSample(asset, price) ==
    [desc |-> WtdDesc, lvs |-> <<asset.symbol, asset.name>>, value |-> price]

RECURSIVE RangeAssetsReturn(_)
\* a variant that leaves the loop at the first price that does not parse
RangeAssetsReturn(assets) ==
    IF assets = <<>> THEN [samples |-> <<>>, failures |-> 0]
    ELSE LET p == ParseFloat(Head(assets).price)
         IN  IF p.err THEN [samples |-> <<>>, failures |-> 1]
             ELSE LET rest == RangeAssetsReturn(Tail(assets))
                  IN  [samples  |-> <<WtdSample(Head(assets), p.val)>> \o rest.samples,
                       failures |-> rest.failures]

RECURSIVE RangeAssets(_)
\* the range loop of Collect: an asset whose price does not parse counts one
\* failure and the loop continues; every other asset sends one sample
RangeAssets(assets) ==
    IF assets = <<>> THEN [samples |-> <<>>, failures |-> 0]
    ELSE LET p    == ParseFloat(Head(assets).price)
             rest == RangeAssets(Tail(assets))
         IN  IF p.err
             THEN [samples |-> rest.samples, failures |-> rest.failures + 1]
             ELSE [samples  |-> <<WtdSample(Head(assets), p.val)>> \o rest.samples,
                   failures |-> rest.failures]

(* Memoizing cache: memoize.NewMemoizer(3*time.Hour, 6*time.Hour) *)

WtdExpiration == 180
WtdCleanupInterval == 360

\* the freshness windows the clock may pass
MaxWindows == 2

\* Storage.Set(key, data, cache.DefaultExpiration)
WtdStorageSet(st, k, data, t) ==
    (k :> [Object |-> data, Expiration |-> t + WtdExpiration]) @@ st

\* the function Memoize hands to the singleflight group
WtdMemoizeStore(st, k, data, innerErr, t) ==
    IF innerErr = NoErr THEN WtdStorageSet(st, k, data, t) ELSE st

(* Requests *)

Request(p, q) == [path |-> p, query |-> q]
NoRequest == Request(<<>>, <<>>)
NoAssets == [qret |-> <<>>, err |-> NoErr, cached |-> FALSE]

AB == <<"A", ",", "B">>
BA == <<"B", ",", "A">>

\* /stocks?symbols=A,B   /stocks?symbols=B,A   /stocks?symbols=A&symbols=B
\* /stocks?symbols=C   /stocks   /funds?symbols=A,B
PathRequests ==
    { Request(<<Slash>> \o stocks, <<Param("symbols", AB)>>),
      Request(<<Slash>> \o stocks, <<Param("symbols", BA)>>),
      Request(<<Slash>> \o stocks,
              <<Param("symbols", <<"A">>), Param("symbols", <<"B">>)>>),
      Request(<<Slash>> \o stocks, <<Param("symbols", <<"C">>)>>),
      Request(<<Slash>> \o stocks, <<>>),
      Request(<<Slash>> \o funds, <<Param("symbols", AB)>>) }

pricePath == <<Slash, "p", "r", "i", "c", "e">>

\* /price?symbols=stock:A,B   /price?symbols=fund:A,B   /price?symbols=stock:C
\* /price?symbols=Stock:A,B   /price?symbols=stockA,B   /price?symbols=A,B
\* /price?symbols=fund        /price
\* /price?symbols=stock:A&symbols=fund:B   /price?symbols=stock:A&symbols=B
TypedRequests ==
    { Request(pricePath, q) : q \in
        { <<Param("symbols", stock \o <<Colon>> \o AB)>>,
          <<Param("symbols", fund \o <<Colon>> \o AB)>>,
          <<Param("symbols", stock \o <<Colon, "C">>)>>,
          <<Param("symbols", <<"S">> \o Tail(stock) \o <<Colon>> \o AB)>>,
          <<Param("symbols", stock \o AB)>>,
          <<Param("symbols", AB)>>,
          <<Param("symbols", fund)>>,
          <<>>,
          <<Param("symbols", stock \o <<Colon, "A">>),
            Param("symbols", fund \o <<Colon, "B">>)>>,
          <<Param("symbols", stock \o <<Colon, "A">>),
            Param("symbols", <<"B">>)>> } }

InitWTD ==
    /\ variant \in {"plain", "path", "typed"}
    /\ qtype = [r \in Procs |-> 0]
    /\ now = 0
    /\ upstream = WtdBook
    /\ flagVolume = FALSE
    /\ storage = << >>
    /\ group = {}
    /\ queryCount = 0
    /\ errorCount = 0
    /\ queryDuration = 0
    /\ pc = [r \in Procs |-> "idle"]
    /\ url = [r \in Procs |-> NoRequest]
    /\ symbols = [r \in Procs |-> <<>>]
    /\ idx = [r \in Procs |-> 0]
    /\ ret = [r \in Procs |-> NoAssets]
    /\ ch = [r \in Procs |-> <<>>]
    /\ hist = [r \in Procs |-> <<>>]
    /\ requests = 0
    /\ collects = 0
    /\ fetches = <<>>
    /\ lastSet = << >>
    /\ lastErr = << >>
    /\ sent = 0
    /\ InitRes

(* The handlers and Collect of the WorldTradingData versions *)

\* the cache key of the request: the comma-joined symbols
symparam(r) == Join(symbols[r], Comma)

\* getQuote of the versions that read the asset type from the path
getQuotePath(r, u) ==
    /\ variant \in {"plain", "path"}
    /\ pc[r] = "idle"
    /\ \A q \in 1..(r - 1) : pc[q] # "idle"
    /\ requests < MaxRequests
    /\ requests' = requests + 1
    /\ url' = [url EXCEPT ![r] = u]
    /\ LET qt      == queryType(u.path)
           qvalues == QueryValues(u.query, "symbols")
       IN  IF qt.err \/ qvalues = <<>>
           THEN /\ pc' = [pc EXCEPT ![r] = "rejected"]
                /\ UNCHANGED <<symbols, qtype>>
           ELSE /\ pc' = [pc EXCEPT ![r] = "Collect"]
                /\ symbols' = [symbols EXCEPT ![r] = qvalues]
                /\ qtype' = [qtype EXCEPT ![r] = qt.qtype]
    /\ UNCHANGED <<now, upstream, flagVolume, storage, group, queryCount,
                   errorCount, queryDuration, idx, ret, ch, hist, collects,
                   fetches, lastSet, lastErr, variant>>

\* getQuote of the version that reads the asset type from the value
getQuoteTyped(r, u) ==
    /\ variant = "typed"
    /\ pc[r] = "idle"
    /\ \A q \in 1..(r - 1) : pc[q] # "idle"
    /\ requests < MaxRequests
    /\ requests' = requests + 1
    /\ url' = [url EXCEPT ![r] = u]
    /\ LET pq == parseQuery(u.query)
       IN  IF pq.err
           THEN /\ pc' = [pc EXCEPT ![r] = "rejected"]
                /\ UNCHANGED <<symbols, qtype>>
           ELSE /\ pc' = [pc EXCEPT ![r] = "Collect"]
                /\ symbols' = [symbols EXCEPT ![r] = pq.symbols]
                /\ qtype' = [qtype EXCEPT ![r] = pq.qtype]
    /\ UNCHANGED <<now, upstream, flagVolume, storage, group, queryCount,
                   errorCount, queryDuration, idx, ret, ch, hist, collects,
                   fetches, lastSet, lastErr, variant>>

\* Collect is entered: queryCount.Inc(), and the latency is observed right
\* after the clock is read, before the lookup
WtdCollectBegin(r) ==
    /\ pc[r] = "Collect"
    /\ queryCount' = queryCount + 1
    /\ queryDuration' = queryDuration + 1
    /\ collects' = collects + 1
    /\ hist' = [hist EXCEPT ![r] = <<"observe">>]
    /\ pc' = [pc EXCEPT ![r] = IF variant = "plain" THEN "fetch" ELSE "lookup"]
    /\ UNCHANGED <<now, upstream, flagVolume, storage, group, errorCount, url,
                   symbols, idx, ret, ch, requests, fetches, lastSet, lastErr,
                   variant, qtype>>

\* cache.Memoize(symparam, ...), first half: Storage.Get
WtdMemoizeGet(r) ==
    /\ pc[r] = "lookup"
    /\ hist' = [hist EXCEPT ![r] = Append(@, "lookup")]
    /\ LET g == StorageGet(storage, symparam(r), now)
       IN  IF g.found
           THEN /\ ret' = [ret EXCEPT ![r] =
                              [qret |-> g.value, err |-> NoErr, cached |-> TRUE]]
                /\ pc' = [pc EXCEPT ![r] = "range"]
           ELSE /\ ret' = ret
                /\ pc' = [pc EXCEPT ![r] = "do"]
    /\ UNCHANGED <<now, upstream, flagVolume, storage, group, queryCount,
                   errorCount, queryDuration, url, symbols, idx, ch, requests,
                   collects, fetches, lastSet, lastErr, variant, qtype>>

\* cache.Memoize, second half: join the call in flight for the key or start one
WtdGroupDo(r) ==
    /\ pc[r] = "do"
    /\ IF symparam(r) \in group
       THEN /\ pc' = [pc EXCEPT ![r] = "wait"]
            /\ group' = group
       ELSE /\ pc' = [pc EXCEPT ![r] = "fetch"]
            /\ group' = group \cup {symparam(r)}
    /\ UNCHANGED <<now, upstream, flagVolume, storage, queryCount, errorCount,
                   queryDuration, url, symbols, idx, ret, ch, hist, requests,
                   collects, fetches, lastSet, lastErr, variant, qtype>>

\* the call of this request, as the history records it
Call(r, err) ==
    [atype |-> qtype[r], syms |-> Range(Split(symparam(r), Comma)),
     at |-> now, err |-> err]

\* getAssetsFromWTD returns.  In the cached versions the answer is stored
\* under symparam when it is no error and handed to the caller and to every
\* goroutine waiting on the same key; main.go calls it directly.
WtdFetch(r) ==
    /\ pc[r] = "fetch"
    /\ LET k       == symparam(r)
           o       == getAssetsFromWTD(symbols[r], qtype[r])
           out     == [qret |-> o.val, err |-> o.err, cached |-> FALSE]
           cached  == variant # "plain"
           sharers == {r} \cup
                      {w \in Procs : cached /\ pc[w] = "wait" /\ symparam(w) = k}
       IN  /\ storage' = IF cached
                         THEN WtdMemoizeStore(storage, k, o.val, o.err, now)
                         ELSE storage
           /\ group' = group \ {k}
           /\ ret' = [w \in Procs |-> IF w \in sharers THEN out ELSE ret[w]]
           /\ pc' = [w \in Procs |-> IF w \in sharers THEN "range" ELSE pc[w]]
           /\ fetches' = Append(fetches, Call(r, o.err))
           /\ lastSet' = IF cached /\ o.err = NoErr
                         THEN (k :> Call(r, o.err)) @@ lastSet
                         ELSE lastSet
    /\ UNCHANGED <<now, upstream, flagVolume, queryCount, errorCount,
                   queryDuration, url, symbols, idx, ch, hist, requests,
                   collects, lastErr, variant, qtype>>

\* the rest of Collect: a failed lookup counts one failure and returns;
\* otherwise the range loop over the assets
WtdRange(r) ==
    /\ pc[r] = "range"
    /\ IF ret[r].err # NoErr
       THEN /\ errorCount' = errorCount + 1
            /\ ch' = ch
       ELSE LET out == RangeAssets(ret[r].qret)
            IN  /\ errorCount' = errorCount + out.failures
                /\ ch' = [ch EXCEPT ![r] = out.samples]
    /\ pc' = [pc EXCEPT ![r] = "done"]
    /\ UNCHANGED <<now, upstream, flagVolume, storage, group, queryCount,
                   queryDuration, url, symbols, idx, ret, hist, requests,
                   collects, fetches, lastSet, lastErr, variant, qtype>>

\* the handler returns
WtdFinish(r) ==
    /\ pc[r] \in {"done", "rejected"}
    /\ pc' = [pc EXCEPT ![r] = "idle"]
    /\ url' = [url EXCEPT ![r] = NoRequest]
    /\ symbols' = [symbols EXCEPT ![r] = <<>>]
    /\ qtype' = [qtype EXCEPT ![r] = 0]
    /\ ret' = [ret EXCEPT ![r] = NoAssets]
    /\ ch' = [ch EXCEPT ![r] = <<>>]
    /\ hist' = [hist EXCEPT ![r] = <<>>]
    /\ UNCHANGED <<now, upstream, flagVolume, storage, group, queryCount,
                   errorCount, queryDuration, idx, requests, collects, fetches,
                   lastSet, lastErr, variant>>

\* time passes, one freshness window at a time
WtdTick ==
    /\ now + WtdExpiration <= MaxWindows * WtdExpiration
    /\ now' = now + WtdExpiration
    /\ UNCHANGED <<upstream, flagVolume, storage, group, queryCount, errorCount,
                   queryDuration, pc, url, symbols, idx, ret, ch, hist, requests,
                   collects, fetches, lastSet, lastErr, variant, qtype>>

\* the janitor of the cache runs every cleanup interval
WtdJanitor ==
    /\ variant # "plain"
    /\ now > 0
    /\ now % WtdCleanupInterval = 0
    /\ storage' = DeleteExpired(storage, now)
    /\ UNCHANGED <<now, upstream, flagVolume, group, queryCount, errorCount,
                   queryDuration, pc, url, symbols, idx, ret, ch, hist, requests,
                   collects, fetches, lastSet, lastErr, variant, qtype>>

NextWTD ==
    \/ \E r \in Procs, u \in PathRequests : getQuotePath(r, u) /\ UNCHANGED <<resVars, sent>>
    \/ \E r \in Procs, u \in TypedRequests : getQuoteTyped(r, u) /\ UNCHANGED <<resVars, sent>>
    \/ \E r \in Procs : WtdCollectBegin(r) /\ UNCHANGED <<resVars, sent>>
    \/ \E r \in Procs : WtdMemoizeGet(r) /\ UNCHANGED <<resVars, sent>>
    \/ \E r \in Procs : WtdGroupDo(r) /\ UNCHANGED <<resVars, sent>>
    \/ \E r \in Procs : WtdFetch(r) /\ UNCHANGED <<resVars, sent>>
    \/ \E r \in Procs : WtdRange(r) /\ UNCHANGED <<resVars, sent>>
    \/ \E r \in Procs : WtdFinish(r) /\ UNCHANGED <<resVars, sent>>
    \/ WtdTick /\ UNCHANGED <<resVars, sent>>
    \/ WtdJanitor /\ UNCHANGED <<resVars, sent>>

SpecWTD == InitWTD /\ [][NextWTD]_vars

----------------------------------------------------------------------------
(* Properties of the WorldTradingData versions *)

\* v starts with the characters of type name p followed by a colon
Prefixed(v, p) ==
    /\ Len(v) > Len(p)
    /\ \A i \in 1..Len(p) : v[i] = p[i]
    /\ v[Len(p) + 1] = Colon

\* the request that arrives at goroutine r in this step of the typed version
Arrives(r) == variant = "typed" /\ pc[r] = "idle" /\ pc'[r] # "idle"

\* the first value of the symbols parameter of a query that has one
FirstValue(q) == Head(QueryValues(q, "symbols"))
HasSymbols(q) == QueryValues(q, "symbols") # <<>>

\* C12: in the typed version a request whose symbols value does not start
\* with "stock:" or "fund:", in lower case and with the colon, is rejected:
\* no collector is built and no register, cache item or upstream call
\* changes, neither then nor when the handler returns; a value that starts
\* with one of the two is served with the asset type of that prefix.
C12_UnknownPrefixRejected ==
    [][ \A r \in Procs :
          /\ (Arrives(r) /\ HasSymbols(url'[r].query)) =>
               LET v == FirstValue(url'[r].query)
               IN  /\ (~Prefixed(v, stock) /\ ~Prefixed(v, fund)) =>
                          /\ pc'[r] = "rejected"
                          /\ UNCHANGED <<symbols, qtype, Registers, collects,
                                         storage, group, fetches, ch>>
                   /\ Prefixed(v, stock) =>
                          pc'[r] = "Collect" /\ qtype'[r] = assetTypeStock
                   /\ Prefixed(v, fund) =>
                          pc'[r] = "Collect" /\ qtype'[r] = assetTypeMutualFund
          /\ (variant = "typed" /\ pc[r] = "rejected" /\ pc'[r] # "rejected") =>
               /\ pc'[r] = "idle"
               /\ UNCHANGED <<Registers, collects, storage, group, fetches>> ]_vars

C12_Witness ==
    /\ variant = "typed"
    /\ pc[1] = "rejected"
    /\ HasSymbols(url[1].query)
    /\ FirstValue(url[1].query)[1] = "S"
    /\ pc[2] = "done"
    /\ qtype[2] = assetTypeMutualFund
    /\ Len(ch[2]) = 2

Recognized(v) == Prefixed(v, stock) \/ Prefixed(v, fund)

\* the symbols a value lists after the colon of its prefix
SymbolsOf(v) == Split(SubSeq(v, Index(v, Colon) + 1, Len(v)), Comma)

RECURSIVE SymbolsOfAll(_)
SymbolsOfAll(vs) ==
    IF vs = <<>> THEN <<>> ELSE SymbolsOf(Head(vs)) \o SymbolsOfAll(Tail(vs))

\* C13 as claimed: in the typed version every occurrence of the symbols
\* parameter is parsed: an occurrence without a recognized prefix, at any
\* position, rejects the request, and otherwise the collector holds the
\* symbols of all the occurrences.
C13_AllOccurrencesParsed ==
    [][ \A r \in Procs :
          (Arrives(r) /\ HasSymbols(url'[r].query)) =>
             LET vs == QueryValues(url'[r].query, "symbols")
             IN  IF \A i \in 1..Len(vs) : Recognized(vs[i])
                 THEN /\ pc'[r] = "Collect"
                      /\ symbols'[r] = SymbolsOfAll(vs)
                 ELSE pc'[r] = "rejected" ]_vars

\* C13: in the typed version only the first occurrence of the symbols
\* parameter is parsed: its prefix alone decides whether the request is
\* rejected and which asset type it has, and the collector holds the symbols
\* of that occurrence and no other.
C13_FirstOccurrenceOnly ==
    [][ \A r \in Procs :
          (Arrives(r) /\ HasSymbols(url'[r].query)) =>
             LET v == FirstValue(url'[r].query)
             IN  IF Recognized(v)
                 THEN /\ pc'[r] = "Collect"
                      /\ symbols'[r] = SymbolsOf(v)
                      /\ qtype'[r] = IF Prefixed(v, stock) THEN assetTypeStock
                                                           ELSE assetTypeMutualFund
                 ELSE pc'[r] = "rejected" ]_vars

C13_Witness ==
    /\ variant = "typed"
    /\ \E r \in Procs :
         /\ pc[r] = "done"
         /\ Len(QueryValues(url[r].query, "symbols")) = 2
         /\ ~Recognized(QueryValues(url[r].query, "symbols")[2])
         /\ symbols[r] = <<<<"A">>>>
         /\ Len(ch[r]) = 1

\* an upstream call for the asset type and the set of symbols of request r
\* has succeeded less than one freshness window (3 hours) ago
CalledLately(r) ==
    \E i \in 1..Len(fetches) :
        /\ fetches[i].atype = qtype[r]
        /\ fetches[i].syms = Range(Split(symparam(r), Comma))
        /\ fetches[i].err = NoErr
        /\ now - fetches[i].at < WtdExpiration

\* C15: in the cached version that reads the asset type from the path, a
\* request for an asset type and a set of symbols for which an upstream
\* call has succeeded in the last 3 hours causes no second call: its
\* lookup is served from the cache, however the request orders the symbols
\* or spreads them over occurrences of the parameter.
C15_OneCallPerSymbolSet ==
    [][ \A r \in Procs :
          (/\ variant = "path"
           /\ pc[r] = "lookup"
           /\ pc'[r] # "lookup"
           /\ CalledLately(r))
          => /\ pc'[r] = "range"
             /\ ret'[r].cached
             /\ fetches' = fetches ]_vars

\* C19: in the typed version a lookup is served from the cache only when the
\* stored entry comes from the upstream call the request would make itself:
\* the call that stored it had the asset type of the request, so that the
\* assets served are those WorldTradingData lists for that type.
C19_CacheKeyHasAssetType ==
    [][ \A r \in Procs :
          (/\ variant = "typed"
           /\ pc[r] = "lookup"
           /\ pc'[r] = "range")
          => /\ lastSet[symparam(r)].atype = qtype[r]
             /\ ret'[r].qret = getAssetsFromWTD(symbols[r], qtype[r]).val ]_vars

\* a price made of decimal digits only
Numeric(asset) ==
    /\ asset.price # <<>>
    /\ \A i \in 1..Len(asset.price) : asset.price[i] \in Range(Digits)
NotNumeric(asset) == ~Numeric(asset)

\* C20: in Collect of the WorldTradingData versions, when the lookup
\* returns m assets of which j have a price that is not a number, Collect
\* sends m-j samples, one per asset with a numeric price and in the order
\* of the answer, whatever the position of the others, and counts j
\* failures; when the lookup fails it sends nothing and counts one failure.
C20_BatchedPartialFailure ==
    [][ \A r \in Procs :
          (pc[r] = "range" /\ pc'[r] # "range") =>
             /\ pc'[r] = "done"
             /\ IF ret[r].err = NoErr
                THEN LET assets == ret[r].qret
                         good   == SelectSeq(assets, Numeric)
                         j      == Len(SelectSeq(assets, NotNumeric))
                     IN  /\ Len(ch'[r]) = Len(assets) - j
                         /\ \A i \in 1..Len(good) :
                              /\ ch'[r][i].lvs = <<good[i].symbol, good[i].name>>
                              /\ ch'[r][i].value = ParseFloat(good[i].price).val
                         /\ errorCount' = errorCount + j
                ELSE /\ ch'[r] = <<>>
                     /\ errorCount' = errorCount + 1 ]_vars

C20_Witness ==
    \E r \in Procs :
        /\ pc[r] = "done"
        /\ ret[r].err = NoErr
        /\ Len(ret[r].qret) = 2
        /\ NotNumeric(ret[r].qret[1])
        /\ Len(ch[r]) = 1
        /\ ch[r][1].lvs[1] = <<"A">>
        /\ ch[r][1].value = 14
        /\ errorCount = 1

\* C21: in Collect of the WorldTradingData versions the latency of a
\* request is observed after its lookup has returned: whenever the
\* observation of the request has been made, the upstream or cache lookup
\* of that request is over.
C21_ObservedAfterLookup ==
    \A r \in Procs :
        (hist[r] # <<>> /\ hist[r][1] = "observe") => pc[r] \in {"range", "done"}

----------------------------------------------------------------------------
(* stonks.Quote, on the answers of stonks.scd31.com *)

LF == "\n"
CR == "\r"
Space == " "
Dollar == "$"

LowerCase == <<"a", "b">>
UpperCase == <<"A", "B">>

\* strings.ToUpper(s)
ToUpperChar(c) ==
    IF \E i \in 1..Len(LowerCase) : LowerCase[i] = c
    THEN UpperCase[CHOOSE i \in 1..Len(LowerCase) : LowerCase[i] = c]
    ELSE c
ToUpper(s) == [i \in 1..Len(s) |-> ToUpperChar(s[i])]

RECURSIVE TrimLeft(_, _)
\* strings.TrimLeft(s, cutset)
TrimLeft(s, cutset) ==
    IF s # <<>> /\ Head(s) \in cutset THEN TrimLeft(Tail(s), cutset) ELSE s

RECURSIVE TrimRight(_, _)
\* strings.TrimRight(s, cutset)
TrimRight(s, cutset) ==
    IF s # <<>> /\ s[Len(s)] \in cutset
    THEN TrimRight(SubSeq(s, 1, Len(s) - 1), cutset)
    ELSE s

\* strings.Trim(s, cutset)
Trim(s, cutset) == TrimRight(TrimLeft(s, cutset), cutset)

NoPrice == [val |-> 0, err |-> NoErr]
Failed(msg) == [val |-> 0, err |-> msg]

\* a variant that takes a price of 0 for a quote
stonksQuoteZeroOk(symbol, resp) ==
    LET sym    == ToUpper(symbol)
        result == TrimRight(Split(resp.body, LF)[1], {CR, LF})
        tok    == Split(result, Space)
    IN  IF resp.err THEN Failed("http")
        ELSE IF result = <<>> THEN Failed("empty results from upstream")
        ELSE IF ~HasPrefix(result, sym \o <<Colon>>)
             THEN Failed("missing symbol name on output")
        ELSE IF Len(tok) < 2 THEN Failed("error parsing quote results")
        ELSE LET p == ParseFloat(Trim(tok[2], {Dollar, Comma}))
             IN  IF p.err THEN Failed("ParseFloat")
                 ELSE [val |-> p.val, err |-> NoErr]

\* Quote(symbol), given what http.Get and io.ReadAll return
stonksQuote(symbol, resp) ==
    LET sym    == ToUpper(symbol)
        result == TrimRight(Split(resp.body, LF)[1], {CR, LF})
        tok    == Split(result, Space)
    IN  IF resp.err THEN Failed("http")
        ELSE IF result = <<>> THEN Failed("empty results from upstream")
        ELSE IF ~HasPrefix(result, sym \o <<Colon>>)
             THEN Failed("missing symbol name on output")
        ELSE IF Len(tok) < 2 THEN Failed("error parsing quote results")
        ELSE LET strval == Trim(tok[2], {Dollar, Comma})
                 p      == ParseFloat(strval)
             IN  IF p.err THEN Failed("ParseFloat")
                 ELSE IF p.val = 0 THEN Failed("query returned price=0")
                 ELSE [val |-> p.val, err |-> NoErr]

(* Inputs *)

\* the price tokens: strings of at most MaxLen characters
StonksTokens ==
    UNION { [1..n -> {Dollar, Comma, "0", "5"}] : n \in 0..MaxLen }

\* what the line starts with, what separates the price from it, and what
\* follows the price
StonksHeads == { <<>>, <<"A", Colon>>, <<"a", Colon>>, <<"A">>, <<"B", Colon>> }
StonksGaps == { <<>>, <<Space>>, <<Space, Space>> }
StonksTails == { <<>>, <<CR>>, <<LF>>, <<CR, LF, "A">>, <<Space, "5">> }

StonksBodies ==
    { h \o g \o t \o e : h \in StonksHeads, g \in StonksGaps,
                         t \in StonksTokens, e \in StonksTails }

StonksInputs == [symbol : {<<"a">>, <<"A">>}, body : StonksBodies]

InitStonks ==
    /\ InitPipe
    /\ InitPerSymbol
    /\ flagVolume = FALSE
    /\ rq \in StonksInputs
    /\ rs = NoPrice
    /\ rdone = FALSE

\* the server answers and the body is read
QuoteAnswered ==
    /\ ~rdone
    /\ rs' = stonksQuote(rq.symbol, [err |-> FALSE, body |-> rq.body])
    /\ rdone' = TRUE
    /\ UNCHANGED rq
    /\ UNCHANGED <<pipeVars, wtdVars>>

\* http.Get or io.ReadAll returns an error
QuoteUnreachable ==
    /\ ~rdone
    /\ rs' = stonksQuote(rq.symbol, [err |-> TRUE, body |-> <<>>])
    /\ rdone' = TRUE
    /\ UNCHANGED rq
    /\ UNCHANGED <<pipeVars, wtdVars>>

NextStonks == QuoteAnswered \/ QuoteUnreachable

SpecStonks == InitStonks /\ [][NextStonks]_vars

(* Properties of stonks.Quote *)

\* the first line of the body, without the carriage returns that end it
FirstLine(body) ==
    LET n    == Index(body, LF)
        line == IF n = 0 THEN body ELSE SubSeq(body, 1, n - 1)
        last == CHOOSE m \in 0..Len(line) :
                   /\ \A i \in (m + 1)..Len(line) : line[i] = CR
                   /\ m > 0 => line[m] # CR
    IN  SubSeq(line, 1, last)

\* the line starts with the symbol in upper case and a colon
Named(line, symbol) ==
    /\ symbol \in {<<"a">>, <<"A">>}
    /\ Len(line) >= 2
    /\ line[1] = "A"
    /\ line[2] = Colon

\* the second of the tokens of a line that has a space
SecondToken(line) ==
    LET rest == SubSeq(line, Index(line, Space) + 1, Len(line))
        n    == Index(rest, Space)
    IN  IF n = 0 THEN rest ELSE SubSeq(rest, 1, n - 1)

\* the token is a run of digits from i to j between "$" and "," signs
NumberAt(tok, i, j) ==
    /\ i <= j
    /\ \A m \in 1..(i - 1) : tok[m] \in {Dollar, Comma}
    /\ \A m \in (j + 1)..Len(tok) : tok[m] \in {Dollar, Comma}
    /\ \A m \in i..j : tok[m] \in Range(Digits)

IsNumber(tok) == \E i, j \in 1..Len(tok) : NumberAt(tok, i, j)
IsZero(tok) ==
    \E i, j \in 1..Len(tok) :
        NumberAt(tok, i, j) /\ \A m \in i..j : tok[m] = "0"

\* C22: stonks.Quote returns a price other than 0 and no error, or 0 and an
\* error; and it returns an error when the first line of the answer is
\* empty, does not start with the upper-cased symbol and a colon, has no
\* second token, has a second token that is no number once the "$" and ","
\* around it are stripped, or has one that is the number 0.
C22_QuoteOrError ==
    rdone =>
        /\ \/ rs.err = NoErr /\ rs.val # 0
           \/ rs.err # NoErr /\ rs.val = 0
        /\ LET line == FirstLine(rq.body)
           IN  (\/ line = <<>>
                \/ ~Named(line, rq.symbol)
                \/ Index(line, Space) = 0
                \/ ~IsNumber(SecondToken(line))
                \/ IsZero(SecondToken(line)))
               => rs.err # NoErr

C22_Witness ==
    /\ rdone
    /\ rq.symbol = <<"a">>
    /\ rq.body = <<"A", Colon, Space, Dollar, "0", Comma, CR>>
    /\ rs.err = "query returned price=0"

----------------------------------------------------------------------------
(* The registers of the per-symbol Collect against each other *)

\* C23: in every reachable state of the per-symbol exporter, whatever the
\* interleaving of the requests, the failure counter is at most the number
\* of latency observations, and so is the number of price samples sent so
\* far plus the failure counter: a lookup is observed before it is counted
\* as failed or its sample is sent.
C23_ObservedBeforeCounted ==
    /\ errorCount <= queryDuration
    /\ sent + errorCount <= queryDuration

C23_Witness ==
    /\ errorCount = 1
    /\ sent = 2
    /\ queryDuration = 4
    /\ pc[1] = "check"
    /\ pc[2] = "done"

====
